---- MODULE Spec2Model ----
(***************************************************************************)
(* Tasks API (src/main.py): a CRUD service over one table "tasks".         *)
(*                                                                         *)
(* Spec      every handler runs as one atomic step (one request at a time) *)
(*           and leaves its response in last until it is sent              *)
(* ConcSpec  handlers run on worker threads; a handler's SELECT, its work  *)
(*           on the loaded object and its commit are separate steps        *)
(*                                                                         *)
(* Optional[T] values are sequences of length <= 1: None is << >> and a    *)
(* present value v is <<v>>.  Strings are sequences of characters.         *)
(* uuid4() is modelled by its contract: a value it never returned before.  *)
(* datetime.utcnow() reads a clock that never runs backwards.              *)
(***************************************************************************)
EXTENDS Integers, Sequences, FiniteSets, TLC

VARIABLES store, now, nextUuid, last, sess

vars == <<store, now, nextUuid, last, sess>>

\* ---------------------------------------------------------------- bounds
MaxTasks == 2
MaxTime == 1

\* ------------------------------------------------------------ input sets
None == << >>
Some(v) == <<v>>
Opt(S) == {None} \cup {Some(v) : v \in S}

StatusEnum == {"created", "in_progress", "completed"}

Uuids == 1..MaxTasks
Titles == {<<"A", "b">>, <<"c">>}
Descriptions == {<<"B">>, <<"ZHE", "a">>}
Queries == {<<"a">>, <<"B">>, <<"_">>, <<"ZHE">>}
Limits == {1, 2, 100}
Offsets == 0..MaxTasks
Workers == {"w1", "w2"}

\* ------------------------------------------------------------ data model
Task(id, title, description, status, created_at, updated_at) ==
    [id |-> id, title |-> title, description |-> description, status |-> status,
     created_at |-> created_at, updated_at |-> updated_at]

TaskCreate == [title : Titles, description : Opt(Descriptions), status : Opt(StatusEnum)]

TaskUpdate == [title : Opt(Titles), description : Opt(Descriptions), status : Opt(StatusEnum)]

\* session.get(Task, task_id): the row with that primary key, or None
session_get(s, task_id) ==
    IF \E t \in s : t.id = task_id
    THEN Some(CHOOSE t \in s : t.id = task_id)
    ELSE None

Idle == [op |-> "none"]

\* a worker thread's request: where the handler stands, the object its
\* session loaded and the object as the handler has changed it
NoPayload == [title |-> None, description |-> None, status |-> None]
IdleSess == [pc |-> "idle", id |-> 0, payload |-> NoPayload, loaded |-> None, task |-> None]

Init ==
    /\ store = {}
    /\ now = 0
    /\ nextUuid = 1
    /\ last = Idle
    /\ sess = [w \in Workers |-> IdleSess]

\* the wall clock advances between requests
Tick ==
    /\ now < MaxTime
    /\ now' = now + 1
    /\ UNCHANGED <<store, nextUuid, last, sess>>

\* --------------------------------------------------------------- create
\* the two timestamps taken the other way round
NewTask_swapped(payload, id, t, d) ==
    Task(id, payload.title, payload.description,
         IF payload.status # None THEN payload.status[1] ELSE "created",
         t + d, t)

\* Task(...) runs default_factory for id, created_at and updated_at in field
\* order: two separate clock reads, d apart.
NewTask(payload, id, t, d) ==
    Task(id, payload.title, payload.description,
         IF payload.status # None THEN payload.status[1] ELSE "created",
         t, t + d)

create_task ==
    \E payload \in TaskCreate, d \in 0..1 :
        /\ last = Idle
        /\ nextUuid <= MaxTasks
        /\ now + d <= MaxTime
        /\ LET task == NewTask(payload, nextUuid, now, d) IN
            /\ store' = store \cup {task}
            /\ last' = [op |-> "create", args |-> payload, id |-> task.id,
                        code |-> 201, body |-> Some(task)]
        /\ nextUuid' = nextUuid + 1
        /\ now' = now + d
        /\ UNCHANGED sess

\* ------------------------------------------------------------------ get
\* the handler without its "task is None" check
get_result_unchecked(s, task_id) ==
    [code |-> 200, body |-> session_get(s, task_id)]

get_result(s, task_id) ==
    LET task == session_get(s, task_id) IN
    IF task = None
    THEN [code |-> 404, body |-> None]
    ELSE [code |-> 200, body |-> task]

get_task ==
    \E task_id \in Uuids :
        /\ last = Idle
        /\ last' = [op |-> "get", id |-> task_id,
                    code |-> get_result(store, task_id).code,
                    body |-> get_result(store, task_id).body]
        /\ UNCHANGED <<store, now, nextUuid, sess>>

\* ----------------------------------------------------------------- list
\* str.lower() of Python: Unicode aware ("ZHE"/"zhe" stand for a Cyrillic pair)
py_lower_char(c) ==
    CASE c = "A" -> "a"
      [] c = "B" -> "b"
      [] c = "C" -> "c"
      [] c = "ZHE" -> "zhe"
      [] OTHER -> c

\* lower() of SQLite: folds ASCII letters only
sql_lower_char(c) ==
    CASE c = "A" -> "a"
      [] c = "B" -> "b"
      [] c = "C" -> "c"
      [] OTHER -> c

py_lower(str) == [i \in 1..Len(str) |-> py_lower_char(str[i])]

sql_lower(str) == [i \in 1..Len(str) |-> sql_lower_char(str[i])]

\* SQL LIKE: % matches any run of characters, _ any one character, every
\* other pattern character itself (ASCII letters regardless of case)
RECURSIVE like(_, _)
like(str, pattern) ==
    IF pattern = << >> THEN str = << >>
    ELSE IF Head(pattern) = "%"
         THEN \/ like(str, Tail(pattern))
              \/ str # << >> /\ like(Tail(str), pattern)
    ELSE /\ str # << >>
         /\ \/ Head(pattern) = "_"
            \/ sql_lower_char(Head(pattern)) = sql_lower_char(Head(str))
         /\ like(Tail(str), Tail(pattern))

\* a comparison with a NULL column is NULL, and NULL in WHERE drops the row
matches_q(t, q) ==
    LET pattern == <<"%">> \o py_lower(q) \o <<"%">> IN
    \/ like(sql_lower(t.title), pattern)
    \/ t.description # None /\ like(sql_lower(t.description[1]), pattern)

apply_filters(rows, status_, q) ==
    {t \in rows : /\ status_ # None => t.status = status_[1]
                  /\ q # None => matches_q(t, q[1])}

\* ORDER BY created_at DESC: rows with equal created_at come in any order
order_by_created_at_desc(rows) ==
    {sq \in [1..Cardinality(rows) -> rows] :
        /\ \A i, j \in DOMAIN sq : i < j =>
              /\ sq[i] # sq[j]
              /\ sq[i].created_at >= sq[j].created_at}

Min(a, b) == IF a < b THEN a ELSE b

\* LIMIT without the OFFSET
limit_no_offset(sq, limit, offset) == SubSeq(sq, 1, Min(limit, Len(sq)))

\* LIMIT limit OFFSET offset
limit_offset(sq, limit, offset) == SubSeq(sq, offset + 1, Min(offset + limit, Len(sq)))

ListArgs == [status : Opt(StatusEnum), q : Opt(Queries), limit : Limits, offset : Offsets]

list_tasks ==
    \E args \in ListArgs :
        /\ last = Idle
        /\ \E sq \in order_by_created_at_desc(apply_filters(store, args.status, args.q)) :
            /\ last' = [op |-> "list", args |-> args, code |-> 200,
                        body |-> limit_offset(sq, args.limit, args.offset)]
            /\ UNCHANGED <<store, now, nextUuid, sess>>

\* --------------------------------------------------------------- update
title_differs(task, payload) ==
    payload.title # None /\ payload.title[1] # task.title

\* the comparison without the "is not None" guard
description_differs_unguarded(task, payload) ==
    payload.description # task.description

description_differs(task, payload) ==
    payload.description # None /\ payload.description # task.description

status_differs(task, payload) ==
    payload.status # None /\ payload.status[1] # task.status

\* a supplied field counts as a change whatever its value
updated_if_supplied(task, payload) ==
    \/ payload.title # None
    \/ payload.description # None
    \/ payload.status # None

updated(task, payload) ==
    \/ title_differs(task, payload)
    \/ description_differs(task, payload)
    \/ status_differs(task, payload)

\* the assignments without the updated_at stamp
patched_no_stamp(task, payload, t) ==
    [task EXCEPT
        !.title = IF title_differs(task, payload) THEN payload.title[1] ELSE @,
        !.description = IF description_differs(task, payload) THEN payload.description ELSE @,
        !.status = IF status_differs(task, payload) THEN payload.status[1] ELSE @]

\* the task object after the three assignments and the updated_at stamp
patched(task, payload, t) ==
    [task EXCEPT
        !.title = IF title_differs(task, payload) THEN payload.title[1] ELSE @,
        !.description = IF description_differs(task, payload) THEN payload.description ELSE @,
        !.status = IF status_differs(task, payload) THEN payload.status[1] ELSE @,
        !.updated_at = IF updated(task, payload) THEN t ELSE @]

\* the unit of work: the attributes whose value differs from the loaded one
Columns == {"title", "description", "status", "updated_at"}
dirty(loaded, task) == {c \in Columns : task[c] # loaded[c]}

\* an UPDATE that leaves the updated_at column out
flush_without_stamp(row, loaded, task) ==
    [row EXCEPT
        !.title = IF "title" \in dirty(loaded, task) THEN task.title ELSE @,
        !.description = IF "description" \in dirty(loaded, task) THEN task.description ELSE @,
        !.status = IF "status" \in dirty(loaded, task) THEN task.status ELSE @]

\* UPDATE tasks SET <dirty columns> WHERE id = ?, one statement in one commit
flush(row, loaded, task) ==
    [row EXCEPT
        !.title = IF "title" \in dirty(loaded, task) THEN task.title ELSE @,
        !.description = IF "description" \in dirty(loaded, task) THEN task.description ELSE @,
        !.status = IF "status" \in dirty(loaded, task) THEN task.status ELSE @,
        !.updated_at = IF "updated_at" \in dirty(loaded, task) THEN task.updated_at ELSE @]

\* session.add + session.commit
commit_update(s, row, loaded, task) == (s \ {row}) \cup {flush(row, loaded, task)}

update_task ==
    \E task_id \in Uuids, payload \in TaskUpdate :
        /\ last = Idle
        /\ LET found == session_get(store, task_id)
               task == patched(found[1], payload, now)
           IN  IF found = None
               THEN /\ last' = [op |-> "update", id |-> task_id, args |-> payload,
                                updated |-> FALSE, code |-> 404, body |-> None]
                    /\ store' = store
               ELSE /\ store' = IF updated(found[1], payload)
                                THEN commit_update(store, found[1], found[1], task)
                                ELSE store
                    /\ last' = [op |-> "update", id |-> task_id, args |-> payload,
                                updated |-> updated(found[1], payload),
                                code |-> 200, body |-> Some(task)]
        /\ UNCHANGED <<now, nextUuid, sess>>

\* --------------------------------------------------------------- delete
\* a delete that never reaches the store
session_delete_kept(s, task) == s

session_delete(s, task) == s \ {task}

delete_task ==
    \E task_id \in Uuids :
        /\ last = Idle
        /\ LET found == session_get(store, task_id)
           IN  IF found = None
               THEN /\ last' = [op |-> "delete", id |-> task_id, code |-> 404,
                                body |-> None]
                    /\ store' = store
               ELSE /\ store' = session_delete(store, found[1])
                    /\ last' = [op |-> "delete", id |-> task_id, code |-> 204,
                                body |-> None]
        /\ UNCHANGED <<now, nextUuid, sess>>

\* the response leaves the server; the next request is then served
Respond ==
    /\ last # Idle
    /\ last' = Idle
    /\ UNCHANGED <<store, now, nextUuid, sess>>

Next ==
    \/ Tick
    \/ Respond
    \/ create_task
    \/ get_task
    \/ list_tasks
    \/ update_task
    \/ delete_task

Spec == Init /\ [][Next]_vars

\* ------------------------------------------------- concurrent requests
\* Handlers run on worker threads, one session each.  A handler's reads and
\* its commit are separate statements against the store; what it does to the
\* loaded object in between is private to its session.
ConcCreates ==
    {[title |-> <<"c">>, description |-> None, status |-> None]}

ConcUpdates ==
    {[title |-> Some(<<"A", "b">>), description |-> None, status |-> Some("completed")],
     [title |-> None, description |-> Some(<<"B">>), status |-> None],
     [title |-> None, description |-> None, status |-> Some("in_progress")]}

Become(w, r) == sess' = [sess EXCEPT ![w] = r]

\* create_task: Task(...) is built in the session
conc_create_new(w) ==
    \E payload \in ConcCreates, d \in 0..1 :
        /\ sess[w].pc = "idle"
        /\ nextUuid <= MaxTasks
        /\ now + d <= MaxTime
        /\ Become(w, [IdleSess EXCEPT !.pc = "insert", !.id = nextUuid,
                         !.task = Some(NewTask(payload, nextUuid, now, d))])
        /\ nextUuid' = nextUuid + 1
        /\ now' = now + d
        /\ UNCHANGED <<store, last>>

\* create_task: session.add + session.commit, the INSERT
conc_create_commit(w) ==
    /\ sess[w].pc = "insert"
    /\ store' = store \cup {sess[w].task[1]}
    /\ Become(w, [IdleSess EXCEPT !.pc = "refresh", !.id = sess[w].id])
    /\ UNCHANGED <<now, nextUuid, last>>

\* get_task: one SELECT, the row is what the response shows
conc_get(w) ==
    \E task_id \in Uuids :
        /\ sess[w].pc = "idle"
        /\ Become(w, [IdleSess EXCEPT !.pc = "respond", !.id = task_id,
                         !.task = session_get(store, task_id)])
        /\ UNCHANGED <<store, now, nextUuid, last>>

\* update_task: session.get; a missing row ends the request with 404
conc_update_get(w) ==
    \E task_id \in Uuids, payload \in ConcUpdates :
        /\ sess[w].pc = "idle"
        /\ LET found == session_get(store, task_id)
           IN  IF found = None
               THEN Become(w, [IdleSess EXCEPT !.pc = "respond", !.id = task_id])
               ELSE Become(w, [pc |-> "patch", id |-> task_id, payload |-> payload,
                               loaded |-> found, task |-> found])
        /\ UNCHANGED <<store, now, nextUuid, last>>

\* update_task: the three comparisons and the updated_at stamp, on the
\* session's object only
conc_update_patch(w) ==
    /\ sess[w].pc = "patch"
    /\ LET task == patched(sess[w].loaded[1], sess[w].payload, now)
       IN  IF updated(sess[w].loaded[1], sess[w].payload)
           THEN Become(w, [sess[w] EXCEPT !.pc = "commit", !.task = Some(task)])
           ELSE Become(w, [IdleSess EXCEPT !.pc = "respond", !.id = sess[w].id,
                              !.task = Some(task)])
    /\ UNCHANGED <<store, now, nextUuid, last>>

\* update_task: session.commit; an UPDATE that matches no row raises and
\* changes nothing
conc_update_commit(w) ==
    /\ sess[w].pc = "commit"
    /\ LET row == session_get(store, sess[w].id)
       IN  IF row = None
           THEN /\ store' = store
                /\ Become(w, IdleSess)
           ELSE /\ store' = commit_update(store, row[1], sess[w].loaded[1], sess[w].task[1])
                /\ Become(w, [IdleSess EXCEPT !.pc = "refresh", !.id = sess[w].id])
    /\ UNCHANGED <<now, nextUuid, last>>

\* session.refresh(task): the row is read again for the response
conc_refresh(w) ==
    /\ sess[w].pc = "refresh"
    /\ Become(w, [IdleSess EXCEPT !.pc = "respond", !.id = sess[w].id,
                     !.task = session_get(store, sess[w].id)])
    /\ UNCHANGED <<store, now, nextUuid, last>>

\* delete_task: session.get; a missing row ends the request with 404
conc_delete_get(w) ==
    \E task_id \in Uuids :
        /\ sess[w].pc = "idle"
        /\ LET found == session_get(store, task_id)
           IN  IF found = None
               THEN Become(w, [IdleSess EXCEPT !.pc = "respond", !.id = task_id])
               ELSE Become(w, [IdleSess EXCEPT !.pc = "delete", !.id = task_id,
                                  !.loaded = found])
        /\ UNCHANGED <<store, now, nextUuid, last>>

\* delete_task: session.delete + session.commit, DELETE ... WHERE id = ?
conc_delete_commit(w) ==
    /\ sess[w].pc = "delete"
    /\ store' = {t \in store : t.id # sess[w].id}
    /\ Become(w, [IdleSess EXCEPT !.pc = "respond", !.id = sess[w].id])
    /\ UNCHANGED <<now, nextUuid, last>>

\* the response leaves the worker
conc_respond(w) ==
    /\ sess[w].pc = "respond"
    /\ Become(w, IdleSess)
    /\ UNCHANGED <<store, now, nextUuid, last>>

ConcNext ==
    \/ Tick
    \/ \E w \in Workers : conc_create_new(w)
    \/ \E w \in Workers : conc_create_commit(w)
    \/ \E w \in Workers : conc_get(w)
    \/ \E w \in Workers : conc_update_get(w)
    \/ \E w \in Workers : conc_update_patch(w)
    \/ \E w \in Workers : conc_update_commit(w)
    \/ \E w \in Workers : conc_refresh(w)
    \/ \E w \in Workers : conc_delete_get(w)
    \/ \E w \in Workers : conc_delete_commit(w)
    \/ \E w \in Workers : conc_respond(w)

ConcSpec == Init /\ [][ConcNext]_vars

\* ======================================================== properties
Row(task_id) == CHOOSE t \in store : t.id = task_id
Exists(s, task_id) == \E t \in s : t.id = task_id
Max(a, b) == IF a > b THEN a ELSE b
Range(sq) == {sq[i] : i \in DOMAIN sq}

\* a handler serves a request in this step
Serves(op) == last = Idle /\ last'.op = op

\* C1: a get(id) right after create(title, description?, status?) returns the
\* requested title and description, the requested status or "created" when
\* none was given, and created_at equal to updated_at.
C1_CreateThenGet ==
    last.op = "create" =>
        LET r == get_result(store, last.id) IN
        /\ r.code = 200
        /\ r.body[1].title = last.args.title
        /\ r.body[1].description = last.args.description
        /\ r.body[1].status =
               IF last.args.status = None THEN "created" ELSE last.args.status[1]
        /\ r.body[1].created_at = r.body[1].updated_at

\* C2: an update of an existing task whose title, description and status are
\* each not supplied or equal to the current value leaves the whole store as
\* it was and returns the unchanged record.
C2_NoChangeUpdate ==
    [][(/\ Serves("update")
        /\ Exists(store, last'.id)
        /\ last'.args.title \in {None, Some(Row(last'.id).title)}
        /\ last'.args.description \in {None, Row(last'.id).description}
        /\ last'.args.status \in {None, Some(Row(last'.id).status)})
       => /\ store' = store
          /\ last'.code = 200
          /\ last'.body = Some(Row(last'.id))]_vars

C2_Witness ==
    /\ last.op = "update"
    /\ last.code = 200
    /\ ~last.updated
    /\ last.args.title # None
    /\ last.args.description = None
    /\ last.args.status # None
    /\ last.body[1] \in store
    /\ last.body[1].updated_at < now

\* C3: an update of an existing task that supplies at least one field with a
\* value different from the current one sets every such field, sets updated_at
\* to the current time, which is not before the previous updated_at, and leaves
\* id, created_at, every other field and every other record unchanged.
C3_ChangingUpdate ==
    [][(/\ Serves("update")
        /\ Exists(store, last'.id)
        /\ \/ last'.args.title \notin {None, Some(Row(last'.id).title)}
           \/ last'.args.description \notin {None, Row(last'.id).description}
           \/ last'.args.status \notin {None, Some(Row(last'.id).status)})
       => LET old == Row(last'.id)
              args == last'.args
          IN  \E new \in store' :
                /\ store' \ {new} = store \ {old}
                /\ last'.body = Some(new)
                /\ new.id = old.id
                /\ new.created_at = old.created_at
                /\ new.title = IF args.title # None THEN args.title[1] ELSE old.title
                /\ new.description =
                       IF args.description # None THEN args.description ELSE old.description
                /\ new.status = IF args.status # None THEN args.status[1] ELSE old.status
                /\ new.updated_at = now
                /\ new.updated_at >= old.updated_at]_vars

C3_Witness ==
    /\ last.op = "update"
    /\ last.updated
    /\ last.args.title = None
    /\ last.args.status # None
    /\ last.body[1] \in store
    /\ last.body[1].status = last.args.status[1]
    /\ last.body[1].updated_at > last.body[1].created_at
    /\ Cardinality(store) = 2

\* C4: once delete(id) succeeded a get(id) fails with NotFound, at once and
\* after any further creates, updates, deletes and lists: an id that was
\* issued and has no record never has a record again.
C4_DeletedStaysDeleted ==
    /\ [](last.op = "delete" /\ last.code = 204 => get_result(store, last.id).code = 404)
    /\ [][\A task_id \in Uuids :
            (task_id < nextUuid /\ ~Exists(store, task_id))
                => get_result(store', task_id).code = 404]_vars

C4_Witness ==
    /\ last.op = "get"
    /\ last.code = 404
    /\ last.id = 1
    /\ nextUuid = 3
    /\ Exists(store, 2)

\* C5: list returns the records of the filtered set in created_at descending
\* order from position offset on, limit records at most: the page is sorted,
\* its length is min(limit, max(0, N - offset)) for N filtered records (so it
\* is empty when offset is at or beyond the end), and its i-th record stands
\* at position offset + i of the filtered set ordered by created_at descending.
C5_Page ==
    last.op = "list" =>
        LET F == apply_filters(store, last.args.status, last.args.q)
            page == last.body
            L == last.args.limit
            O == last.args.offset
        IN  /\ last.code = 200
            /\ Len(page) = Min(L, Max(0, Cardinality(F) - O))
            /\ Len(page) <= L
            /\ \A i \in DOMAIN page : page[i] \in F
            /\ \A i, j \in DOMAIN page :
                  i < j => page[i] # page[j] /\ page[i].created_at >= page[j].created_at
            /\ \A i \in DOMAIN page :
                  /\ Cardinality({t \in F : t.created_at > page[i].created_at}) <= O + i - 1
                  /\ Cardinality({t \in F : t.created_at >= page[i].created_at}) >= O + i

C5_Witness ==
    /\ last.op = "list"
    /\ last.args.offset = 1
    /\ last.args.limit = 1
    /\ last.args.status = None
    /\ last.args.q # None
    /\ Cardinality(store) = 2
    /\ Len(last.body) = 1
    /\ \E t \in store : t.created_at > last.body[1].created_at

\* C6: the records list selects before pagination are exactly the stored
\* records whose status equals the given status (when one is given) and whose
\* title or non-null description contains q, compared without regard to case
\* (when q is given); list does not modify the store.
fold(str) ==
    [i \in 1..Len(str) |->
        CASE str[i] = "A" -> "a"
          [] str[i] = "B" -> "b"
          [] str[i] = "C" -> "c"
          [] str[i] = "ZHE" -> "zhe"
          [] OTHER -> str[i]]

Contains(str, sub) ==
    \E i \in 1..(Len(str) - Len(sub) + 1) : SubSeq(str, i, i + Len(sub) - 1) = sub

Selected(rows, status_, q) ==
    {t \in rows :
        /\ status_ # None => t.status = status_[1]
        /\ q # None =>
              \/ Contains(fold(t.title), fold(q[1]))
              \/ t.description # None /\ Contains(fold(t.description[1]), fold(q[1]))}

C6_FilterExact ==
    (last.op = "list" /\ last.args.limit = 100 /\ last.args.offset = 0)
        => Range(last.body) = Selected(store, last.args.status, last.args.q)

\* C7: every stored task has updated_at >= created_at, one of the three
\* statuses, a non-empty title and an id no other stored task has.
C7_StoreInvariant ==
    \A t \in store :
        /\ t.updated_at >= t.created_at
        /\ t.status \in {"created", "in_progress", "completed"}
        /\ Len(t.title) >= 1
        /\ \A u \in store : u.id = t.id => u = t

C7_Witness ==
    /\ last.op = "delete"
    /\ last.code = 204
    /\ \E t \in store :
          /\ t.updated_at > t.created_at
          /\ t.status = "completed"
          /\ t.title = <<"A", "b">>

\* C8: get, update and delete answer NotFound exactly when the store has no
\* record with the id at the time of the call, and a call answered NotFound
\* leaves the store unchanged.
C8_NotFound ==
    [][(\E op \in {"get", "update", "delete"} : Serves(op))
       => /\ last'.code = 404 <=> ~Exists(store, last'.id)
          /\ last'.code = 404 => store' = store]_vars

C8_Witness ==
    /\ last.op \in {"update", "delete"}
    /\ last.code = 404
    /\ last.id = 1
    /\ store # {}

\* C9: under any interleaving, whenever a stored row changes, the step is the
\* one commit of one update request, and the row then shows every field that
\* request changed together with that request's updated_at stamp, and nothing
\* else changed: no reader can see an update partly applied, or a changed
\* field without the request's new updated_at.
C9_Original ==
    [][\A t \in store : \A t2 \in store' :
          (t2.id = t.id /\ t2 # t) =>
              \E w \in Workers :
                  /\ sess[w].pc = "commit"
                  /\ sess[w].id = t.id
                  /\ sess'[w].pc # "commit"
                  /\ LET ld == sess[w].loaded[1]
                         pl == sess[w].payload
                     IN  /\ t2.title = IF title_differs(ld, pl) THEN pl.title[1] ELSE t.title
                         /\ t2.description =
                                IF description_differs(ld, pl) THEN pl.description
                                ELSE t.description
                         /\ t2.status = IF status_differs(ld, pl) THEN pl.status[1] ELSE t.status
                         /\ t2.updated_at = sess[w].task[1].updated_at
                         /\ t2.created_at = t.created_at]_vars

\* C9 as amended: the same, with the updated_at stamp written in that commit
\* when it differs from the updated_at the request loaded; a stamp equal to
\* the loaded value is no change of the object and leaves the column alone.
C9_AtomicCommit ==
    [][\A t \in store : \A t2 \in store' :
          (t2.id = t.id /\ t2 # t) =>
              \E w \in Workers :
                  /\ sess[w].pc = "commit"
                  /\ sess[w].id = t.id
                  /\ sess'[w].pc # "commit"
                  /\ LET ld == sess[w].loaded[1]
                         pl == sess[w].payload
                         stamp == sess[w].task[1].updated_at
                     IN  /\ t2.title = IF title_differs(ld, pl) THEN pl.title[1] ELSE t.title
                         /\ t2.description =
                                IF description_differs(ld, pl) THEN pl.description
                                ELSE t.description
                         /\ t2.status = IF status_differs(ld, pl) THEN pl.status[1] ELSE t.status
                         /\ t2.updated_at =
                                IF stamp # ld.updated_at THEN stamp ELSE t.updated_at
                         /\ t2.created_at = t.created_at]_vars

C9_Witness ==
    \E w, v \in Workers :
        /\ w # v
        /\ sess[w].pc = "refresh"
        /\ sess[v].pc = "commit"
        /\ sess[v].id = sess[w].id
        /\ \E t \in store :
              /\ t.id = sess[w].id
              /\ t.title = <<"A", "b">>
              /\ t.status = "completed"
              /\ t.updated_at > sess[v].loaded[1].updated_at
              /\ sess[v].loaded[1].title = <<"c">>

\* C10: update never clears a description: a stored task whose description is
\* non-null has a non-null description in the next state, for as long as the
\* task is stored.
C10_DescriptionStays ==
    [][\A t \in store : \A t2 \in store' :
          (t2.id = t.id /\ t.description # None) => t2.description # None]_vars

C10_Witness ==
    /\ last.op = "update"
    /\ last.updated
    /\ last.args.description = None
    /\ last.body[1] \in store
    /\ last.body[1].description # None

====
